---- MODULE Spec2Model ----
(***************************************************************************)
(* AudioTranscoder (src/codec/audio/transcoder.rs): a Decoder, a Resampler *)
(* and an Encoder chained by push / flush / take around one ready queue.   *)
(*                                                                         *)
(* The Transcoder's own code is modelled step by step: one action per      *)
(* function of the impl block, one step per engine call.  The three        *)
(* engines are external: they are modelled by their contract (push / take  *)
(* / flush, each call able to fail, each engine buffering by the delay of  *)
(* the codec it was constructed for).                                      *)
(***************************************************************************)
EXTENDS Integers, Sequences, FiniteSets, TLC

VARIABLES
    audio_decoder,      \* [held, out, delay]: frames held back / frames ready for take
    audio_resampler,    \* [buf, out]: samples buffered / frames ready for take
    audio_encoder,      \* [held, out, delay, padding]: frames held back / packets ready for take
    output_sample_rate, \* u32, fixed at construction
    output_samples,     \* u64, the running sample counter
    ready,              \* VecDeque<Packet>
    stack,              \* call stack of the running push/flush (<<>> when no call runs)
    at,                 \* position in the top function: "enter" (before its engine push/flush) or "loop"
    arg,                \* <<x>>: the argument of the function being entered
    result,             \* result of the most recent call: "Ok", "Again", "Err", "Pending", "None"
    returned,           \* what the most recent take returned: <<>> (None) or <<packet>>
    lastOp,             \* the most recent call: "new", "push", "flush", "take"
    drained,            \* no push/flush got past the queue check since take last returned None (or since new)
    protocol,           \* every push/flush so far was issued with drained = TRUE
    calls,              \* number of push/flush calls that got past the queue check
    log,                \* engine calls made by the most recent push/flush, in order
    emitted,            \* [raw, out] of every packet taken from the Encoder, in order, over the session
    taken,              \* every packet take returned, in order, over the session
    faults,             \* number of engine calls that failed so far
    forwarded,          \* sum of samples of the frames handed to audio_encoder.push
    accepted,           \* sum of samples of the frames audio_encoder.push accepted
    history,            \* [op, result, takes] of every push/flush that got past the queue check, in order
    encoded,            \* [pts, samples, counter, resampled, ok] of every audio_encoder.push, over the session
    budget              \* upper bound on the engine calls of the most recent push/flush

vars == <<audio_decoder, audio_resampler, audio_encoder, output_sample_rate,
          output_samples, ready, stack, at, arg, result, returned, lastOp,
          drained, protocol, calls, log, emitted, taken, faults, forwarded, accepted,
          history, encoded, budget>>

(***************************************************************************)
(* Bounds and inputs                                                       *)
(***************************************************************************)
MaxCalls == 3

MaxFaults == 1

MICROS == 1000000

samples_per_frame == 2

Frame(p, n) == [pts |-> p, samples |-> n]

\* An input packet is represented by the frames the Decoder decodes from it.
InputPackets ==
    { <<>>,
      <<Frame(0, 1)>>,
      <<Frame(-1, 2)>>,
      <<Frame(-1, 2), Frame(0, 1)>>,
      <<Frame(-1, 1), Frame(0, 2), Frame(1, 2)>> }

\* The configurations the Transcoder is constructed for: the output sample
\* rate, the number of frames the input codec's Decoder and the output
\* codec's Encoder hold back until they are fed more or flushed, and the
\* initial padding of the Encoder in samples.
Configurations ==
    { [sample_rate |-> 44100, decoder_delay |-> 0, encoder_delay |-> 0, padding |-> 0],
      [sample_rate |-> 44100, decoder_delay |-> 1, encoder_delay |-> 1, padding |-> 0],
      [sample_rate |-> 48000, decoder_delay |-> 0, encoder_delay |-> 0, padding |-> 1],
      [sample_rate |-> 48000, decoder_delay |-> 1, encoder_delay |-> 1, padding |-> 1],
      [sample_rate |-> 44100, decoder_delay |-> 0, encoder_delay |-> 2, padding |-> 0] }

Last(s) == s[Len(s)]
Front(s) == SubSeq(s, 1, Len(s) - 1)
Event(c, ok, item) == [call |-> c, ok |-> ok, item |-> item]

(***************************************************************************)
(* The engines' contracts (external collaborators).  Every operator gives  *)
(* the set of outcomes [ok, st, item] the call may have.                   *)
(***************************************************************************)
Failure(st) == [ok |-> FALSE, st |-> st, item |-> <<>>]

TakeFrom(st) ==
    IF st.out = <<>>
        THEN [ok |-> TRUE, st |-> st, item |-> <<>>]
        ELSE [ok |-> TRUE, st |-> [st EXCEPT !.out = Tail(@)], item |-> <<Head(st.out)>>]

\* How many of n buffered items an engine of the given delay releases.
Released(n, delay) == IF n > delay THEN n - delay ELSE 0

\* The Decoder decodes the packet and releases its oldest undelivered frames;
\* the newest `delay` frames stay inside until later pushes or the flush.
DecoderPush(d, packet) ==
    LET all == d.held \o packet
        k == Released(Len(all), d.delay)
    IN  {Failure(d),
         [ok |-> TRUE, item |-> <<>>,
          st |-> [d EXCEPT !.held = SubSeq(all, k + 1, Len(all)),
                           !.out = @ \o SubSeq(all, 1, k)]]}

DecoderTake(d) == {Failure(d), TakeFrom(d)}

DecoderFlush(d) ==
    {Failure(d),
     [ok |-> TRUE, item |-> <<>>, st |-> [d EXCEPT !.held = <<>>, !.out = @ \o d.held]]}

\* The Resampler buffers samples and emits frames of the target frame size
\* only; the flush emits what is left as one short frame.  The PTS it puts
\* on a frame is its own (the Transcoder overwrites it): here one past the
\* PTS of the frame pushed, and the negated sample count on the flush.
ResamplerFrames(n, q) == [i \in 1..n |-> Frame(q + (i - 1) * samples_per_frame, samples_per_frame)]

ResamplerPush(r, frame) ==
    LET total == r.buf + frame.samples IN
    {Failure(r),
     [ok |-> TRUE, item |-> <<>>,
      st |-> [r EXCEPT !.buf = total % samples_per_frame,
                       !.out = @ \o ResamplerFrames(total \div samples_per_frame,
                                                    frame.pts + 1)]]}

ResamplerTake(r) == {Failure(r), TakeFrom(r)}

ResamplerFlush(r) ==
    {Failure(r),
     [ok |-> TRUE, item |-> <<>>,
      st |-> [r EXCEPT !.buf = 0,
                       !.out = IF r.buf = 0 THEN @ ELSE Append(@, Frame(0 - r.buf, r.buf))]]}

\* The Encoder encodes frames in the order it received them, one packet per
\* frame, stamped with the frame's PTS less its initial padding; it releases
\* its oldest packets and keeps the newest `delay` until later.  The DTS and
\* the stream index it puts on a packet are its own (the Transcoder
\* overwrites both): here a DTS one behind the PTS, and stream index 1.
EncoderPacket(e, pts) ==
    [pts |-> pts - e.padding, dts |-> pts - e.padding - 1, stream_index |-> 1]

EncoderRelease(e, all, k) ==
    [e EXCEPT !.held = SubSeq(all, k + 1, Len(all)),
              !.out = @ \o [i \in 1..k |-> EncoderPacket(e, all[i])]]

EncoderPush(e, frame) ==
    LET all == Append(e.held, frame.pts) IN
    {Failure(e),
     [ok |-> TRUE, item |-> <<>>,
      st |-> EncoderRelease(e, all, Released(Len(all), e.delay))]}

EncoderTake(e) == {Failure(e), TakeFrom(e)}

EncoderFlush(e) ==
    {Failure(e),
     [ok |-> TRUE, item |-> <<>>, st |-> EncoderRelease(e, e.held, Len(e.held))]}

(***************************************************************************)
(* The Transcoder's own computations                                       *)
(***************************************************************************)
\* Faulty variant of the queue check: a single packet left is let through.
queue_busy_long(q) == Len(q) > 1

\* Faulty variants of the queue check: the check left out, and the `!` lost.
queue_busy_never(q) == FALSE

queue_busy_inverted(q) == q = <<>>

\* `!self.ready.is_empty()`
queue_busy(q) == q # <<>>

\* Faulty variant: pop_back in place of pop_front.
pop_back(q) ==
    IF q = <<>> THEN [item |-> <<>>, rest |-> q]
                ELSE [item |-> <<Last(q)>>, rest |-> Front(q)]

\* `self.ready.pop_front()`
pop_front(q) ==
    IF q = <<>> THEN [item |-> <<>>, rest |-> q]
                ELSE [item |-> <<Head(q)>>, rest |-> Tail(q)]

\* Faulty variant: an empty queue reported as the Again error.
take_outcome_strict(q) ==
    [result |-> IF q = <<>> THEN "Again" ELSE "Ok",
     item |-> pop_front(q).item, rest |-> pop_front(q).rest]

\* `Ok(self.ready.pop_front())`
take_outcome(q) == [result |-> "Ok", item |-> pop_front(q).item, rest |-> pop_front(q).rest]

\* Faulty variant: push_front in place of push_back.
push_front(q, packet) == <<packet>> \o q

\* `self.ready.push_back(packet)`
push_back(q, packet) == Append(q, packet)

\* Faulty variant: the frame of PTS exactly 0 skipped as well.
forwards_positive(frame) == frame.pts > 0

\* `if frame.pts() >= 0`
forwards(frame) == frame.pts >= 0

\* Faulty variant: the frame stamped with the counter as it is after the
\* increment.
with_pts_next(frame, counter) == [frame EXCEPT !.pts = counter + frame.samples]

\* Faulty variant: the frame keeps the PTS the Resampler put on it.
with_pts_kept(frame, counter) == frame

\* `frame.with_pts(self.output_samples as i64)`
with_pts(frame, counter) == [frame EXCEPT !.pts = counter]

\* Faulty variant: frames counted in place of samples.
add_samples_one(counter, frame) == counter + 1

\* Faulty variant: the counter advanced by the Encoder's frame size, whatever
\* the frame holds.
add_samples_per_frame(counter, frame) == counter + samples_per_frame

\* `self.output_samples += frame.samples() as u64`
add_samples(counter, frame) == counter + frame.samples

\* Faulty variant: the quotient rounded down (div_euclid).
FloorDiv(a, b) == a \div b

\* i64 `/`: the quotient is truncated toward zero
TruncDiv(a, b) == IF a >= 0 THEN a \div b ELSE -((-a) \div b)

\* `packet.pts() * 1_000_000 / self.output_sample_rate as i64`
timestamp(pts, rate) == TruncDiv(pts * MICROS, rate)

\* `packet.with_stream_index(0).with_pts(ts).with_dts(ts)`
output_packet(packet, rate) ==
    [packet EXCEPT !.stream_index = 0,
                   !.pts = timestamp(packet.pts, rate),
                   !.dts = timestamp(packet.pts, rate)]

\* Faulty variant: the Encoder flushed before the Resampler.
next_stage_swapped(callee) ==
    IF callee = "flush_decoder" THEN "flush_encoder" ELSE "flush_resampler"

\* The stage flush() runs once the stage `callee` has returned Ok
next_stage(callee) ==
    IF callee = "flush_decoder" THEN "flush_resampler" ELSE "flush_encoder"

(***************************************************************************)
(* Control flow: `?`, calls and returns                                    *)
(***************************************************************************)
\* The record of the running call, closed with its result.
Closed(h, r) == [h EXCEPT ![Len(h)].result = r]

\* The engine call at the head of a function succeeded: go on to its loop.
Loop ==
    /\ stack' = stack
    /\ at' = "loop"
    /\ arg' = <<>>
    /\ result' = result
    /\ history' = history

\* Faulty variant: the Err dropped (`let _ =`), the function goes on.
Propagate_swallowed == Loop

\* `?` on an Err: every function on the stack returns the error at once.
Propagate ==
    /\ stack' = <<>>
    /\ at' = "idle"
    /\ arg' = <<>>
    /\ result' = "Err"
    /\ history' = Closed(history, "Err")

\* The loop calls fn(x).
Enter(fn, x) ==
    /\ stack' = Append(stack, fn)
    /\ at' = "enter"
    /\ arg' = <<x>>
    /\ result' = result
    /\ history' = history

\* Faulty variant: a `loop` that does not leave on None.
Return_respin == UNCHANGED <<stack, at, arg, result, history>>

\* The loop got None: the top function returns Ok(()) to its caller.  push
\* then returns Ok; flush goes on to its next stage, or returns Ok after the
\* last one; a push_to_* / flush_* caller goes on with its own loop.
Return ==
    LET callee == Last(stack)
        caller == Last(Front(stack))
    IN  IF caller = "push" \/ (caller = "flush" /\ callee = "flush_encoder")
            THEN /\ stack' = <<>>
                 /\ at' = "idle"
                 /\ arg' = <<>>
                 /\ result' = "Ok"
                 /\ history' = Closed(history, "Ok")
        ELSE IF caller = "flush"
            THEN /\ stack' = <<"flush", next_stage(callee)>>
                 /\ at' = "enter"
                 /\ arg' = <<>>
                 /\ result' = result
                 /\ history' = history
        ELSE /\ stack' = Front(stack)
             /\ at' = "loop"
             /\ arg' = <<>>
             /\ result' = result
             /\ history' = history

\* Faulty variant: `if let` in place of `while let`, the function returns
\* after the first item.
Stay_once == Return

\* The loop goes round again.
Stay == UNCHANGED <<stack, at, arg, result, history>>

Running(fn) == stack # <<>> /\ Last(stack) = fn

\* An engine call with outcome o: a failure is counted.
Engine(o) ==
    /\ o.ok \/ faults < MaxFaults
    /\ faults' = IF o.ok THEN faults ELSE faults + 1

(***************************************************************************)
(* Construction                                                            *)
(***************************************************************************)
Init ==
    /\ \E c \in Configurations :
          /\ audio_decoder = [held |-> <<>>, out |-> <<>>, delay |-> c.decoder_delay]
          /\ audio_encoder = [held |-> <<>>, out |-> <<>>, delay |-> c.encoder_delay,
                               padding |-> c.padding]
          /\ output_sample_rate = c.sample_rate
    /\ audio_resampler = [buf |-> 0, out |-> <<>>]
    /\ output_samples = 0
    /\ ready = <<>>
    /\ stack = <<>>
    /\ at = "idle"
    /\ arg = <<>>
    /\ result = "None"
    /\ returned = <<>>
    /\ lastOp = "new"
    /\ drained = TRUE
    /\ protocol = TRUE
    /\ calls = 0
    /\ log = <<>>
    /\ faults = 0
    /\ emitted = <<>>
    /\ taken = <<>>
    /\ forwarded = 0
    /\ accepted = 0
    /\ history = <<>>
    /\ encoded = <<>>
    /\ budget = 0

(***************************************************************************)
(* The public operations                                                   *)
(***************************************************************************)
RECURSIVE SumSamples(_)
SumSamples(frames) ==
    IF frames = <<>> THEN 0 ELSE Head(frames).samples + SumSamples(Tail(frames))

\* An upper bound on the engine calls one push/flush makes, from what the
\* engines hold when it starts: every stage makes one push or flush per item
\* it receives (and one flush), one take per item it gets out and one take
\* that reports None per loop.
EngineCalls(packet, d, r, e) ==
    LET frames == Len(d.held) + Len(d.out) + Len(packet)
        samples == r.buf + SumSamples(d.held) + SumSamples(d.out) + SumSamples(packet)
        resampled == Len(r.out) + samples \div samples_per_frame + 1
        packets == Len(e.held) + Len(e.out) + resampled
    IN  (frames + 2) + (2 * frames + resampled + 2) + (2 * resampled + packets + 2)

\* Faulty variant: a `flushed` mode, a push after a flush is refused.
Call_flushed_mode(op, fn, x) ==
    /\ lastOp' = op
    /\ returned' = <<>>
    /\ log' = <<>>
    /\ protocol' = (protocol /\ drained)
    /\ IF queue_busy(ready) \/ (op = "push" /\ \E i \in 1..Len(history) : history[i].op = "flush")
          THEN /\ result' = "Again"
               /\ UNCHANGED <<stack, at, arg, drained, calls, history, budget>>
          ELSE /\ calls < MaxCalls
               /\ calls' = calls + 1
               /\ drained' = FALSE
               /\ result' = "Pending"
               /\ stack' = <<op, fn>>
               /\ at' = "enter"
               /\ arg' = x
               /\ history' = Append(history, [op |-> op, result |-> "Pending", takes |-> FALSE])
               /\ budget' = EngineCalls(IF x = <<>> THEN <<>> ELSE x[1],
                                         audio_decoder, audio_resampler, audio_encoder)
    /\ UNCHANGED <<audio_decoder, audio_resampler, audio_encoder, output_sample_rate,
                   output_samples, ready, emitted, taken, faults, forwarded, accepted,
                   encoded>>

\* A push or flush call: the queue check, then the first stage is entered.
Call(op, fn, x) ==
    /\ lastOp' = op
    /\ returned' = <<>>
    /\ log' = <<>>
    /\ protocol' = (protocol /\ drained)
    /\ IF queue_busy(ready)
          THEN /\ result' = "Again"
               /\ UNCHANGED <<stack, at, arg, drained, calls, history, budget>>
          ELSE /\ calls < MaxCalls
               /\ calls' = calls + 1
               /\ drained' = FALSE
               /\ result' = "Pending"
               /\ stack' = <<op, fn>>
               /\ at' = "enter"
               /\ arg' = x
               /\ history' = Append(history, [op |-> op, result |-> "Pending", takes |-> FALSE])
               /\ budget' = EngineCalls(IF x = <<>> THEN <<>> ELSE x[1],
                                         audio_decoder, audio_resampler, audio_encoder)
    /\ UNCHANGED <<audio_decoder, audio_resampler, audio_encoder, output_sample_rate,
                   output_samples, ready, emitted, taken, faults, forwarded, accepted,
                   encoded>>

push(packet) ==
    /\ stack = <<>>
    /\ Call("push", "push_to_decoder", <<packet>>)

flush ==
    /\ stack = <<>>
    /\ Call("flush", "flush_decoder", <<>>)

take ==
    /\ stack = <<>>
    /\ LET r == take_outcome(ready) IN
        /\ result' = r.result
        /\ returned' = r.item
        /\ ready' = r.rest
        /\ taken' = taken \o r.item
        /\ drained' = (drained \/ (r.result = "Ok" /\ r.item = <<>>))
    /\ lastOp' = "take"
    /\ history' = IF history = <<>> THEN history
                                    ELSE [history EXCEPT ![Len(history)].takes = TRUE]
    /\ UNCHANGED <<audio_decoder, audio_resampler, audio_encoder, output_sample_rate,
                   output_samples, stack, at, arg, protocol, calls, log, emitted,
                   faults, forwarded, accepted, encoded, budget>>

(***************************************************************************)
(* The internal stages: one step per engine call                           *)
(***************************************************************************)
\* Everything a stage of the decoder or the resampler leaves alone.
KeepOutput == UNCHANGED <<output_sample_rate, output_samples, ready, returned, lastOp,
                          drained, protocol, calls, emitted, taken, forwarded, accepted,
                          encoded, budget>>

\* `while let Some(frame) = self.audio_decoder.take()?`, shared by
\* push_to_decoder (which skips the frames of negative PTS) and flush_decoder
\* (which forwards every frame).
decoder_loop(filtered) ==
    \E o \in DecoderTake(audio_decoder) :
        /\ Engine(o)
        /\ audio_decoder' = o.st
        /\ log' = Append(log, Event("audio_decoder.take", o.ok, o.item))
        /\ IF ~o.ok THEN Propagate
           ELSE IF o.item = <<>> THEN Return
           ELSE IF filtered /\ ~forwards(o.item[1]) THEN Stay
           ELSE Enter("push_to_resampler", o.item[1])
        /\ UNCHANGED <<audio_resampler, audio_encoder>>
        /\ KeepOutput

push_to_decoder ==
    /\ Running("push_to_decoder")
    /\ \/ /\ at = "enter"
          /\ \E o \in DecoderPush(audio_decoder, arg[1]) :
                /\ Engine(o)
                /\ audio_decoder' = o.st
                /\ log' = Append(log, Event("audio_decoder.push", o.ok, arg))
                /\ IF o.ok THEN Loop ELSE Propagate
          /\ UNCHANGED <<audio_resampler, audio_encoder>>
          /\ KeepOutput
       \/ /\ at = "loop"
          /\ decoder_loop(TRUE)

flush_decoder ==
    /\ Running("flush_decoder")
    /\ \/ /\ at = "enter"
          /\ \E o \in DecoderFlush(audio_decoder) :
                /\ Engine(o)
                /\ audio_decoder' = o.st
                /\ log' = Append(log, Event("audio_decoder.flush", o.ok, <<>>))
                /\ IF o.ok THEN Loop ELSE Propagate
          /\ UNCHANGED <<audio_resampler, audio_encoder>>
          /\ KeepOutput
       \/ /\ at = "loop"
          /\ decoder_loop(FALSE)

\* `while let Some(frame) = self.audio_resampler.take()?`
resampler_loop ==
    \E o \in ResamplerTake(audio_resampler) :
        /\ Engine(o)
        /\ audio_resampler' = o.st
        /\ log' = Append(log, Event("audio_resampler.take", o.ok, o.item))
        /\ IF ~o.ok THEN Propagate
           ELSE IF o.item = <<>> THEN Return
           ELSE Enter("push_to_encoder", o.item[1])
        /\ UNCHANGED <<audio_decoder, audio_encoder>>
        /\ KeepOutput

push_to_resampler ==
    /\ Running("push_to_resampler")
    /\ \/ /\ at = "enter"
          /\ \E o \in ResamplerPush(audio_resampler, arg[1]) :
                /\ Engine(o)
                /\ audio_resampler' = o.st
                /\ log' = Append(log, Event("audio_resampler.push", o.ok, arg))
                /\ IF o.ok THEN Loop ELSE Propagate
          /\ UNCHANGED <<audio_decoder, audio_encoder>>
          /\ KeepOutput
       \/ /\ at = "loop"
          /\ resampler_loop

flush_resampler ==
    /\ Running("flush_resampler")
    /\ \/ /\ at = "enter"
          /\ \E o \in ResamplerFlush(audio_resampler) :
                /\ Engine(o)
                /\ audio_resampler' = o.st
                /\ log' = Append(log, Event("audio_resampler.flush", o.ok, <<>>))
                /\ IF o.ok THEN Loop ELSE Propagate
          /\ UNCHANGED <<audio_decoder, audio_encoder>>
          /\ KeepOutput
       \/ /\ at = "loop"
          /\ resampler_loop

\* `self.ready.push_back(packet)` of the rewritten packet
push_to_output(q, rate, packet) == push_back(q, output_packet(packet, rate))

\* `while let Some(packet) = self.audio_encoder.take()?`
encoder_loop ==
    \E o \in EncoderTake(audio_encoder) :
        /\ Engine(o)
        /\ audio_encoder' = o.st
        /\ log' = Append(log, Event("audio_encoder.take", o.ok, o.item))
        /\ IF ~o.ok THEN Propagate /\ UNCHANGED <<ready, emitted>>
           ELSE IF o.item = <<>> THEN Return /\ UNCHANGED <<ready, emitted>>
           ELSE /\ Stay
                /\ ready' = push_to_output(ready, output_sample_rate, o.item[1])
                /\ emitted' = Append(emitted,
                                     [raw |-> o.item[1],
                                      out |-> output_packet(o.item[1], output_sample_rate),
                                      call |-> calls])
        /\ UNCHANGED <<audio_decoder, audio_resampler, output_sample_rate, output_samples,
                       returned, lastOp, drained, protocol, calls, taken, forwarded,
                       accepted, encoded, budget>>

push_to_encoder ==
    /\ Running("push_to_encoder")
    /\ \/ /\ at = "enter"
          /\ LET frame == with_pts(arg[1], output_samples) IN
             \E o \in EncoderPush(audio_encoder, frame) :
                /\ Engine(o)
                /\ audio_encoder' = o.st
                /\ log' = Append(log, Event("audio_encoder.push", o.ok, <<frame>>))
                /\ forwarded' = forwarded + frame.samples
                /\ encoded' = Append(encoded,
                                     [pts |-> frame.pts, samples |-> frame.samples,
                                      counter |-> output_samples,
                                      resampled |-> arg[1].pts, ok |-> o.ok])
                /\ IF o.ok
                      THEN /\ output_samples' = add_samples(output_samples, frame)
                           /\ accepted' = accepted + frame.samples
                           /\ Loop
                      ELSE /\ UNCHANGED <<output_samples, accepted>>
                           /\ Propagate
          /\ UNCHANGED <<audio_decoder, audio_resampler, output_sample_rate, ready,
                         returned, lastOp, drained, protocol, calls, emitted, taken, budget>>
       \/ /\ at = "loop"
          /\ encoder_loop

flush_encoder ==
    /\ Running("flush_encoder")
    /\ \/ /\ at = "enter"
          /\ \E o \in EncoderFlush(audio_encoder) :
                /\ Engine(o)
                /\ audio_encoder' = o.st
                /\ log' = Append(log, Event("audio_encoder.flush", o.ok, <<>>))
                /\ IF o.ok THEN Loop ELSE Propagate
          /\ UNCHANGED <<audio_decoder, audio_resampler>>
          /\ KeepOutput
       \/ /\ at = "loop"
          /\ encoder_loop

(***************************************************************************)
(* Specification                                                           *)
(***************************************************************************)
Next ==
    \/ \E packet \in InputPackets : push(packet)
    \/ flush
    \/ take
    \/ push_to_decoder
    \/ push_to_resampler
    \/ push_to_encoder
    \/ flush_decoder
    \/ flush_resampler
    \/ flush_encoder

Spec == Init /\ [][Next]_vars

\* A push or flush that has started runs on: its code is sequential and runs
\* to its return before the caller can do anything else.
Cascade ==
    \/ push_to_decoder
    \/ push_to_resampler
    \/ push_to_encoder
    \/ flush_decoder
    \/ flush_resampler
    \/ flush_encoder

FairSpec == Spec /\ WF_vars(Cascade)

(***************************************************************************)
(* Vocabulary of the properties                                            *)
(***************************************************************************)
Idle == stack = <<>>

\* The events of the log, up to index n, that are successful calls of c.
Calls(c, n) == SelectSeq(SubSeq(log, 1, n), LAMBDA e : e.call = c /\ e.ok)

\* Those among them that carry an item (a take that returned Some).
Items(c, n) == SelectSeq(Calls(c, n), LAMBDA e : e.item # <<>>)

\* Index of the first call of c in the log, 0 when there is none.
IndexOf(c) ==
    IF \E i \in 1..Len(log) : log[i].call = c
        THEN CHOOSE i \in 1..Len(log) :
                /\ log[i].call = c
                /\ \A j \in 1..(i - 1) : log[j].call # c
        ELSE 0

Count(c) == Cardinality({i \in 1..Len(log) : log[i].call = c})

ItemsOf(events) == [i \in 1..Len(events) |-> events[i].item[1]]

SamplesOf(events) == [i \in 1..Len(events) |-> events[i].item[1].samples]

\* The packets appended to the ready queue so far, in emission order.
EmittedOut == [i \in 1..Len(emitted) |-> emitted[i].out]

Suffix(s, n) == SubSeq(s, Len(s) - n + 1, Len(s))

NonDecreasing(s) == \A i, j \in 1..Len(s) : i <= j => s[i] <= s[j]

\* t is a / b with the quotient truncated toward zero (b > 0).
IsTruncatedQuotient(t, a, b) ==
    /\ a >= 0 => (t >= 0 /\ t * b <= a /\ a < (t + 1) * b)
    /\ a < 0 => (t <= 0 /\ t * b >= a /\ a > (t - 1) * b)

(***************************************************************************)
(* C1 - C10                                                                *)
(***************************************************************************)
\* C1: a push or flush issued while the ready queue is non-empty fails with
\* Again and changes nothing: the ready queue, the running sample counter and
\* the three engines stay as they were, and no engine call is made.
C1_AgainChangesNothing ==
    [][(ready # <<>> /\ ((\E packet \in InputPackets : push(packet)) \/ flush))
          => /\ result' = "Again"
             /\ log' = <<>>
             /\ UNCHANGED <<ready, output_samples, audio_decoder, audio_resampler,
                            audio_encoder, stack>>]_vars

\* A push has just been refused over a queue that still holds two packets.
C1_Witness == lastOp = "push" /\ result = "Again" /\ Len(ready) >= 2

\* C2: every frame handed to audio_resampler.push, in push and in flush, has a
\* non-negative PTS (stated for the runs in which no engine call has failed).
C2_NoNegativePtsToResampler ==
    faults = 0 =>
        \A i \in 1..Len(log) :
            log[i].call = "audio_resampler.push" => log[i].item[1].pts >= 0

\* C3: in a run where every push/flush was issued after a full drain and no
\* engine call failed, no push or flush has failed with Again.
C3_NoAgainInCycle == (protocol /\ faults = 0) => result # "Again"

\* The documented cycle run to its end: pushes, each drained, then the
\* flush, which returned Ok, with packets handed out on the way.
C3_Witness ==
    /\ protocol /\ faults = 0
    /\ calls = MaxCalls /\ lastOp = "flush" /\ result = "Ok"
    /\ Len(taken) >= 2 /\ ready # <<>>

\* C4 as claimed: with every push/flush preceded by a full drain, the ready
\* queue is empty immediately before and immediately after each push/flush
\* (after: stated for the calls that returned Ok in a run without failures).
C4_EmptyBeforeAndAfter ==
    /\ drained => ready = <<>>
    /\ (protocol /\ faults = 0 /\ Idle /\ lastOp \in {"push", "flush"} /\ result = "Ok")
          => ready = <<>>

\* C4 as amended: with every push/flush preceded by a full drain, the ready
\* queue is empty immediately before each push/flush; immediately after the
\* call it holds exactly the packets the Encoder gave out during that call,
\* in their order.
C4_EmptyBeforeEachCall ==
    /\ drained => ready = <<>>
    /\ (protocol /\ Idle /\ lastOp \in {"push", "flush"} /\ result \in {"Ok", "Err"})
          => ready = Suffix(EmittedOut, Len(Items("audio_encoder.take", Len(log))))

\* A push issued after a full drain has just returned Ok and left two packets.
C4_Witness ==
    /\ protocol /\ Idle /\ lastOp = "push" /\ result = "Ok"
    /\ calls >= 2 /\ Len(ready) >= 2

\* C5 as claimed: the PTS and DTS of the output packets, in emission order
\* over the session, are non-decreasing and start at 0 or later.
C5_NonDecreasingFromZero ==
    /\ NonDecreasing([i \in 1..Len(emitted) |-> emitted[i].out.pts])
    /\ NonDecreasing([i \in 1..Len(emitted) |-> emitted[i].out.dts])
    /\ emitted # <<>> => (emitted[1].out.pts >= 0 /\ emitted[1].out.dts >= 0)

\* C5 as amended: the PTS and DTS of the output packets, in emission order
\* over the session, are non-decreasing; the first is 0 when the Encoder has
\* no initial padding, and it is negative exactly when the Encoder put a
\* negative PTS on its first packet.
C5_NonDecreasing ==
    /\ NonDecreasing([i \in 1..Len(emitted) |-> emitted[i].out.pts])
    /\ NonDecreasing([i \in 1..Len(emitted) |-> emitted[i].out.dts])
    /\ emitted # <<>> =>
          /\ audio_encoder.padding = 0 => emitted[1].out.pts = 0
          /\ emitted[1].out.pts < 0 <=> emitted[1].raw.pts < 0

\* Packets of pushes and of the flush, the first one before 0 and the
\* timestamps rising.
C5_Witness ==
    /\ lastOp = "flush" /\ calls = MaxCalls /\ Len(emitted) >= 3
    /\ emitted[1].out.pts < 0
    /\ emitted[2].out.pts > 0
    /\ emitted[3].out.pts > emitted[2].out.pts

\* C6 as claimed: whenever no call runs, the running sample counter equals the
\* sum of the sample counts of the frames handed to the Encoder so far.
C6_CounterIsForwarded == Idle => output_samples = forwarded

\* C6 as amended: the running sample counter is 0 after construction, never
\* decreases, is left alone by take, and always equals the sum of the sample
\* counts of the frames the Encoder accepted (a frame whose push to the
\* Encoder fails is not counted).
C6_CounterIsAccepted ==
    /\ output_samples = 0
    /\ [](output_samples = accepted)
    /\ [][/\ output_samples' >= output_samples
          /\ take => output_samples' = output_samples]_vars

\* After pushes, a flush with a short last frame and a take; one frame was
\* refused by the Encoder on the way.
C6_Witness ==
    /\ lastOp = "take" /\ calls = MaxCalls
    /\ output_samples >= 3 /\ output_samples % samples_per_frame = 1
    /\ forwarded > accepted

\* C7: every packet appended to the ready queue has stream index 0 and
\* PTS = DTS = p * 1_000_000 / output_sample_rate, p being the PTS the Encoder
\* put on it and the quotient truncated toward zero; so every packet of the
\* ready queue has stream index 0 and equal PTS and DTS.
C7_OutputPacket ==
    /\ \A i \in 1..Len(emitted) :
          /\ emitted[i].out.stream_index = 0
          /\ emitted[i].out.dts = emitted[i].out.pts
          /\ IsTruncatedQuotient(emitted[i].out.pts, emitted[i].raw.pts * MICROS,
                                 output_sample_rate)
    /\ \A j \in 1..Len(ready) :
          /\ ready[j].stream_index = 0
          /\ ready[j].pts = ready[j].dts
          /\ \E i \in 1..Len(emitted) : ready[j] = emitted[i].out

\* The queue holds a packet of negative Encoder PTS whose timestamp is not a
\* whole number of microseconds, and a later one of positive PTS.
C7_Witness ==
    /\ Len(ready) >= 2
    /\ \E i \in 1..Len(emitted) :
          /\ emitted[i].out = ready[1]
          /\ emitted[i].raw.pts < 0
          /\ emitted[i].raw.stream_index # 0
          /\ emitted[i].raw.dts # emitted[i].raw.pts
          /\ ready[1].pts * output_sample_rate # emitted[i].raw.pts * MICROS
    /\ ready[2].pts > 0

\* C8: flush signals end-of-stream to the Decoder first, then to the
\* Resampler, then to the Encoder, each once.  When the Resampler is flushed
\* the Decoder has just reported None, every frame drained from it has been
\* pushed to the Resampler and every frame taken from the Resampler has been
\* pushed to the Encoder; when the Encoder is flushed the Resampler has just
\* reported None and every frame taken from it has been pushed to the Encoder.
C8_FlushOrder ==
    lastOp = "flush" =>
        LET d == IndexOf("audio_decoder.flush")
            r == IndexOf("audio_resampler.flush")
            e == IndexOf("audio_encoder.flush")
        IN  /\ log # <<>> => d = 1
            /\ Count("audio_decoder.flush") <= 1
            /\ Count("audio_resampler.flush") <= 1
            /\ Count("audio_encoder.flush") <= 1
            /\ r > 0 =>
                  /\ \A i \in 1..(r - 1) : log[i].ok
                  /\ log[r - 1] = Event("audio_decoder.take", TRUE, <<>>)
                  /\ ItemsOf(Items("audio_decoder.take", r))
                        = ItemsOf(Calls("audio_resampler.push", r))
                  /\ SamplesOf(Items("audio_resampler.take", r))
                        = SamplesOf(Calls("audio_encoder.push", r))
            /\ e > 0 =>
                  /\ r > 0 /\ r < e
                  /\ \A i \in 1..(e - 1) : log[i].ok
                  /\ log[e - 1] = Event("audio_resampler.take", TRUE, <<>>)
                  /\ SamplesOf(Items("audio_resampler.take", e))
                        = SamplesOf(Calls("audio_encoder.push", e))

\* A flush has returned Ok in which the Decoder gave up a frame it held, the
\* flushed Resampler gave its short last frame and the flushed Encoder a packet.
C8_Witness ==
    /\ lastOp = "flush" /\ result = "Ok"
    /\ LET r == IndexOf("audio_resampler.flush")
           e == IndexOf("audio_encoder.flush")
       IN  /\ r > 0 /\ e > r
           /\ Len(Items("audio_decoder.take", r)) >= 1
           /\ Len(Items("audio_resampler.take", e)) > Len(Items("audio_resampler.take", r))
           /\ Len(Items("audio_encoder.take", Len(log))) > Len(Items("audio_encoder.take", e))

\* C9: take removes and returns the oldest packet of the ready queue, and the
\* packets take has returned, followed by those still queued, are the packets
\* taken from the Encoder (rewritten by the output step), each once, in the
\* Encoder's order.
C9_FifoNoLoss ==
    /\ [](taken \o ready = EmittedOut)
    /\ [][take =>
            /\ returned' = (IF ready = <<>> THEN <<>> ELSE <<Head(ready)>>)
            /\ ready' = (IF ready = <<>> THEN <<>> ELSE Tail(ready))
            /\ taken' = taken \o returned']_vars

\* Two different packets handed out, the second by the call just made, and
\* one more still queued.
C9_Witness ==
    /\ lastOp = "take" /\ Len(taken) >= 2 /\ ready # <<>>
    /\ returned = <<taken[Len(taken)]>>
    /\ taken[1] # taken[2]

\* C10: take on an empty ready queue returns Ok(None) and leaves the ready
\* queue, the running sample counter and the three engines as they were;
\* repeated, it changes nothing at all.
C10_TakeOnEmpty ==
    [][(take /\ ready = <<>>) =>
            /\ result' = "Ok"
            /\ returned' = <<>>
            /\ UNCHANGED <<ready, output_samples, audio_decoder, audio_resampler,
                           audio_encoder>>
            /\ (lastOp = "take" /\ result = "Ok" /\ returned = <<>>) => UNCHANGED vars]_vars

\* take has just returned None, after packets had been handed out.
C10_Witness ==
    /\ lastOp = "take" /\ result = "Ok" /\ returned = <<>> /\ ready = <<>>
    /\ taken # <<>> /\ drained

(***************************************************************************)
(* C11 - C20                                                               *)
(***************************************************************************)
\* The packets taken from the Encoder during the call number c.
EmittedIn(c) == SelectSeq(emitted, LAMBDA p : p.call = c)

\* No engine call of the most recent push/flush has failed.
AllOk == \A i \in 1..Len(log) : log[i].ok

\* The two most recent calls that got past the queue check were op1, op2.
LastTwo(op1, op2) ==
    /\ Len(history) >= 2
    /\ history[Len(history) - 1].op = op1
    /\ history[Len(history)].op = op2

\* C11: after a flush that returned Ok and a full drain, a second flush with
\* no push in between appends no packet to the ready queue, and it returns
\* Ok (it fails only if one of its own engine calls fails).
C11_SecondFlushAddsNothing ==
    (LastTwo("flush", "flush") /\ history[Len(history) - 1].result = "Ok") =>
        /\ EmittedIn(calls) = <<>>
        /\ ready = <<>>
        /\ Idle => (history[calls].result = IF AllOk THEN "Ok" ELSE "Err")
        /\ ~Idle => AllOk

\* A push, a flush that gave packets, the drain, and a second flush that has
\* returned Ok.
C11_Witness ==
    /\ LastTwo("flush", "flush") /\ Idle
    /\ Len(history) >= 3
    /\ history[calls - 1].result = "Ok" /\ history[calls - 1].takes
    /\ Len(EmittedIn(calls - 1)) >= 2
    /\ history[calls].result = "Ok" /\ drained

\* C12: when an engine call fails in the middle of a push or flush, the call
\* returns the error at once: the failed call is the last engine call made
\* (in flush, an end-of-stream signal not yet sent is never sent), and the
\* failing step leaves the ready queue, the running sample counter and the
\* other engines as the cascade had left them; the packets the call had
\* appended are all in the ready queue and the counter keeps its increments.
C12_ErrorStopsCascade ==
    /\ [][faults' > faults =>
            /\ result' = "Err" /\ stack' = <<>>
            /\ ~Last(log').ok /\ Front(log') = log
            /\ UNCHANGED <<ready, output_samples, emitted, taken>>
            /\ Last(log').call \notin {"audio_decoder.push", "audio_decoder.take",
                                       "audio_decoder.flush"}
                  => UNCHANGED audio_decoder
            /\ Last(log').call \notin {"audio_resampler.push", "audio_resampler.take",
                                       "audio_resampler.flush"}
                  => UNCHANGED audio_resampler
            /\ Last(log').call \notin {"audio_encoder.push", "audio_encoder.take",
                                       "audio_encoder.flush"}
                  => UNCHANGED audio_encoder]_vars
    /\ [](result = "Err" =>
            /\ Idle /\ lastOp \in {"push", "flush"}
            /\ log # <<>> /\ ~Last(log).ok
            /\ \A i \in 1..(Len(log) - 1) : log[i].ok
            /\ Last(log).call \notin {"audio_resampler.flush", "audio_resampler.take",
                                      "audio_encoder.push", "audio_encoder.take",
                                      "audio_encoder.flush"}
                  => Count("audio_resampler.flush") = 0
            /\ Last(log).call \notin {"audio_encoder.flush", "audio_encoder.take"}
                  => Count("audio_encoder.flush") = 0
            /\ ready = [i \in 1..Len(EmittedIn(calls)) |-> EmittedIn(calls)[i].out]
            /\ output_samples = accepted)

\* A flush has failed at the Resampler's end-of-stream signal, after its
\* decoder stage had appended a packet and advanced the counter.
C12_Witness ==
    /\ result = "Err" /\ lastOp = "flush"
    /\ Last(log).call = "audio_resampler.flush"
    /\ Len(Calls("audio_encoder.push", Len(log))) >= 1
    /\ ready # <<>> /\ output_samples > 0

\* The frames of every call of c in the log, failed calls included.
Passed(c) == ItemsOf(SelectSeq(log, LAMBDA e : e.call = c))

IsPrefix(s, t) == Len(s) <= Len(t) /\ s = SubSeq(t, 1, Len(s))

\* C13: during push, the frames pushed to the Resampler are the frames the
\* Decoder gave with PTS >= 0 (PTS 0 included), each once and in the
\* Decoder's order: at every moment all of them but at most the one just
\* taken, and all of them when push returns Ok.
C13_ForwardsNonNegative ==
    lastOp = "push" =>
        LET given == ItemsOf(Items("audio_decoder.take", Len(log)))
            due == SelectSeq(given, LAMBDA f : f.pts >= 0)
        IN  /\ IsPrefix(Passed("audio_resampler.push"), due)
            /\ Len(Passed("audio_resampler.push")) >= Len(due) - 1
            /\ (Idle /\ result = "Ok") => Passed("audio_resampler.push") = due

\* A push has returned Ok whose packet decoded to frames of PTS -1, 0 and 1:
\* the last two were pushed to the Resampler.
C13_Witness ==
    /\ lastOp = "push" /\ Idle /\ result = "Ok"
    /\ Len(Items("audio_decoder.take", Len(log))) = 3
    /\ ItemsOf(Items("audio_decoder.take", Len(log)))[1].pts < 0
    /\ Len(Passed("audio_resampler.push")) = 2
    /\ Passed("audio_resampler.push")[1].pts = 0
    /\ Passed("audio_resampler.push")[2].pts = 1

\* The frames the Encoder accepted among the first n pushed to it.
Counted(n) == SelectSeq(SubSeq(encoded, 1, n), LAMBDA f : f.ok)

\* C14: every frame pushed to the Encoder, in push and in flush, carries the
\* running sample counter's value of that moment as its PTS, whatever PTS the
\* Resampler gave it: 0 for the first frame, and for each later frame the PTS
\* of the previous counted frame plus that frame's sample count.
C14_ContiguousTimeline ==
    \A i \in 1..Len(encoded) :
        /\ encoded[i].pts = encoded[i].counter
        /\ encoded[i].pts =
              IF Counted(i - 1) = <<>> THEN 0
              ELSE Last(Counted(i - 1)).pts + Last(Counted(i - 1)).samples

\* Three frames were pushed to the Encoder, the last one the short frame of
\* the flush; the Resampler had put other PTS on them.
C14_Witness ==
    /\ lastOp = "flush" /\ Len(encoded) >= 3
    /\ \A i \in 1..3 : encoded[i].ok /\ encoded[i].resampled # encoded[i].pts
    /\ encoded[2].pts = samples_per_frame
    /\ encoded[3].pts = 2 * samples_per_frame
    /\ encoded[3].samples < samples_per_frame

\* The step of push_to_encoder that stamps the frame and pushes it.
SendsFrame == Running("push_to_encoder") /\ at = "enter"

\* C15 as claimed: the running sample counter is increased by the frame's
\* sample count before the frame is sent to the Encoder, so it is increased
\* by every frame sent, whatever the Encoder answers.
C15_CountedBeforeSending ==
    [][SendsFrame => output_samples' = output_samples + arg[1].samples]_vars

\* C15 as amended: the frame is sent carrying the counter's value as it was,
\* and the counter is increased by exactly the frame's sample count right
\* after the Encoder has accepted the frame; it is left as it was when the
\* Encoder refuses the frame, and by every other step.
C15_CountedAfterAccepting ==
    [][/\ SendsFrame =>
            /\ Last(log').call = "audio_encoder.push"
            /\ Last(log').item[1].pts = output_samples
            /\ Last(log').item[1].samples = arg[1].samples
            /\ output_samples' = IF Last(log').ok THEN output_samples + arg[1].samples
                                                  ELSE output_samples
       /\ ~SendsFrame => output_samples' = output_samples]_vars

\* The Encoder refused a frame and accepted a later one: both carried the
\* same PTS, and the counter now stands one frame further.
C15_Witness ==
    \E i, j \in 1..Len(encoded) :
        /\ i < j /\ ~encoded[i].ok /\ encoded[j].ok
        /\ encoded[j].pts = encoded[i].pts /\ encoded[j].pts > 0
        /\ j = Len(encoded)
        /\ output_samples = encoded[j].pts + encoded[j].samples

\* The packets appended to the ready queue during the call number c.
AppendedIn(c) == [i \in 1..Len(EmittedIn(c)) |-> EmittedIn(c)[i].out]

\* C16 as claimed: the ready queue is empty after construction, and whenever
\* it is non-empty between calls, the most recent push/flush that got past
\* the queue check has returned Ok.
C16_NonEmptyOnlyAfterSuccess ==
    /\ lastOp = "new" => ready = <<>>
    /\ (Idle /\ ready # <<>>) => (history # <<>> /\ Last(history).result = "Ok")

\* C16 as amended: the ready queue is empty after construction; packets are
\* appended to it only by a running push/flush that got past the queue
\* check; and whenever it is non-empty it holds packets of the most recent
\* such call only, not yet drained, that call having returned Ok or an
\* engine's error if no call is running.
C16_NonEmptyOnlyAfterCall ==
    /\ ready = <<>>
    /\ [][Len(ready') > Len(ready) =>
            (stack # <<>> /\ history # <<>> /\ Last(history).result = "Pending")]_vars
    /\ [](ready # <<>> =>
            /\ history # <<>> /\ ~drained
            /\ Len(ready) <= Len(AppendedIn(calls))
            /\ ready = Suffix(AppendedIn(calls), Len(ready))
            /\ Idle => Last(history).result \in {"Ok", "Err"})

\* A flush has failed after it had appended two packets; one has been taken
\* since, the other is still queued.
C16_Witness ==
    /\ Idle /\ lastOp = "take" /\ Len(ready) = 1
    /\ Last(history).op = "flush" /\ Last(history).result = "Err"
    /\ Len(AppendedIn(calls)) = 2

\* The entries of the session's output log that are still in the ready queue.
Queued == Suffix(emitted, Len(ready))

\* C17: the packets of the ready queue were all appended by one single push
\* or flush call, so the queue is never longer than the number of packets
\* the Encoder gave during that one call.
C17_OneCallsOutput ==
    /\ Len(ready) <= Len(emitted)
    /\ ready # <<>> =>
          /\ \A i \in 1..Len(ready) :
                /\ Queued[i].out = ready[i]
                /\ Queued[i].call = Queued[1].call
          /\ Len(ready) <= Len(EmittedIn(Queued[1].call))

\* The queue holds the two packets of the latest call, an earlier call's
\* packets having been taken.
C17_Witness ==
    /\ Len(ready) = 2 /\ calls >= 2
    /\ Len(emitted) >= 4
    /\ emitted[1].call < calls
    /\ Len(EmittedIn(calls)) = 2

\* push has just returned Ok.
PushReturnedOk == Idle /\ lastOp = "push" /\ result = "Ok"

\* No push/flush of the session has failed with an engine's error.
NoneFailed == \A i \in 1..Len(history) : history[i].result # "Err"

C19_Terminates ==
    /\ ~Idle ~> (Idle /\ result \in {"Ok", "Err"})
    /\ [](Len(log) <= budget)
    /\ [][take => (stack' = <<>> /\ at' = at /\ Len(ready') >= Len(ready) - 1)]_vars

\* A flush has returned Ok after more than twenty engine calls.
C19_Witness ==
    /\ Idle /\ lastOp = "flush" /\ result = "Ok"
    /\ Len(log) > 20 /\ Len(log) <= budget

\* A push or a flush is called.
Called == (\E packet \in InputPackets : push(packet)) \/ flush

\* C20: a push or flush is refused with Again if and only if the ready queue
\* holds a packet when it is called, whatever calls came before: a call that
\* appended nothing leaves the queue empty (so that the next call, made
\* without a take in between, finds it empty), and a push made after a flush
\* is judged by the queue alone.
C20_AgainByQueueAlone ==
    /\ [][Called => (result' = "Again" <=> ready # <<>>)]_vars
    /\ [][(Called /\ ready = <<>>) => (stack' # <<>> /\ calls' = calls + 1)]_vars
    /\ []((Idle /\ lastOp \in {"push", "flush"} /\ result \in {"Ok", "Err"}
              /\ EmittedIn(calls) = <<>>) => ready = <<>>)

\* A flush that appended nothing was followed, with no take in between, by
\* a push: the push was let in, and it has returned Ok with a packet.
C20_Witness ==
    /\ LastTwo("flush", "push")
    /\ history[calls - 1].result = "Ok" /\ ~history[calls - 1].takes
    /\ EmittedIn(calls - 1) = <<>>
    /\ Idle /\ lastOp = "push" /\ result = "Ok" /\ ready # <<>>

====
